---- MODULE Spec2Model ----
(***************************************************************************)
(* k8s-cicd-lab: the React dashboard (App: fetchData, the mount effect,    *)
(* the Refresh button, formatUptime) and the NestJS backend (AppService).  *)
(*                                                                         *)
(* The dashboard runs on one JavaScript thread.  A refresh cycle is one    *)
(* call of fetchData; it is suspended at each await, and other handlers    *)
(* (timer, click, other cycles' continuations, network events) run         *)
(* between its awaits.  Every action below is one such run-to-completion   *)
(* piece of code.                                                          *)
(***************************************************************************)
EXTENDS Integers, Sequences, FiniteSets, TLC

\* ------------------------------------------------------------------ bounds
\* Cycles 1..MaxCycles may be started in one session.
MaxCycles == 3
\* At most this many cycles are suspended at an await at the same time.
MaxInFlight == 2
\* The backend's uptime counter runs up to this many seconds.
MaxUptime == 3
\* The backend answers at most this many getInfo calls in one run.
MaxCalls == 3
\* formatUptime is applied to 0 .. MaxSeconds seconds, in steps of 1/TicksPerSecond.
MaxSeconds == 3700
TicksPerSecond == 2

Cycles == 1..MaxCycles
Requests == {"health", "info", "message"}

\* ------------------------------------------------------------ program text
NoError == "<null>"
FetchFailedMsg == "Failed to fetch data from backend"
UnknownMsg == "Unknown error occurred"
\* What the runtime throws: fetch rejects with a TypeError, json() with a SyntaxError.
NetworkError == [isError |-> TRUE, message |-> "Failed to fetch"]
SyntaxError == [isError |-> TRUE, message |-> "Unexpected token < in JSON at position 0"]
BodyError == [isError |-> TRUE, message |-> "network error"]
FetchFailedError == [isError |-> TRUE, message |-> FetchFailedMsg]

Null == [kind |-> "null", from |-> 0]
EmptyMessage == [kind |-> "message", from |-> 0]
InitialDate == 0
\* The parsed body of cycle c's response to request r.
Body(r, c) == [kind |-> r, from |-> c]

VARIABLES
  \* useState of App
  health, info, message, loading, error, lastRefresh,
  \* the component's life and the handle of setInterval
  phase, interval,
  \* one fetchData call per cycle: its position and its locals
  nextCycle, pc, res, healthData, infoData,
  \* history: what started a cycle in the latest step ("none" when that step
  \* started none), how each cycle ended, which cycle was the last to end on
  \* its success path
  trigger, outcome, lastSuccess,
  \* backend process
  nodeEnv, nodeVersion, uptime, infoLog, healthResp, helloResp,
  \* formatUptime's argument (in ticks) and result
  seconds, formatted

viewVars == <<health, info, message, loading, error, lastRefresh>>
cycleVars == <<nextCycle, pc, res, healthData, infoData>>
histVars == <<trigger, outcome, lastSuccess>>
clientVars == <<viewVars, phase, interval, cycleVars, histVars>>
serverVars == <<nodeEnv, nodeVersion, uptime, infoLog, healthResp, helloResp>>
fmtVars == <<seconds, formatted>>
vars == <<clientVars, serverVars, fmtVars>>

\* ------------------------------------------------------------------ client
ParseStates == {"awaitHealthJson", "awaitInfoJson", "awaitText"}
InFlight == {c \in Cycles : pc[c] \in {"awaitAll"} \cup ParseStates}
Pending(c) == {r \in Requests : res[c][r] = "pending"}

\* Promise.race in place of Promise.all: settled with the first result.
PromiseRace(rs) ==
  IF \E r \in Requests : rs[r] = "rejected" THEN "rejected"
  ELSE IF \E r \in Requests : rs[r] # "pending" THEN "fulfilled"
  ELSE "pending"

\* Promise.all over the three fetch promises, each "pending", "resolved" or
\* "rejected": rejected as soon as one rejects, fulfilled when all three have
\* resolved, pending otherwise.
PromiseAll(rs) ==
  IF \E r \in Requests : rs[r] = "rejected" THEN "rejected"
  ELSE IF \A r \in Requests : rs[r] # "pending" THEN "fulfilled"
  ELSE "pending"

\* The two branches of the conditional exchanged.
CatchMessageSwapped(err) == IF err.isError THEN UnknownMsg ELSE err.message

\* catch (err): err instanceof Error ? err.message : 'Unknown error occurred'
CatchMessage(err) == IF err.isError THEN err.message ELSE UnknownMsg

InitClient ==
  /\ health = Null
  /\ info = Null
  /\ message = EmptyMessage
  /\ loading = TRUE
  /\ error = NoError
  /\ lastRefresh = InitialDate
  /\ phase = "created"
  /\ interval = FALSE
  /\ nextCycle = 1
  /\ pc = [c \in Cycles |-> "idle"]
  /\ res = [c \in Cycles |-> [r \in Requests |-> "pending"]]
  /\ healthData = [c \in Cycles |-> Null]
  /\ infoData = [c \in Cycles |-> Null]
  /\ trigger = "none"
  /\ outcome = [c \in Cycles |-> "none"]
  /\ lastSuccess = 0

\* fetchData up to its first await: setLoading(true), setError(null), three
\* fetches.  The guards are the bounds of the model.
StartCycle(by) ==
  /\ nextCycle <= MaxCycles
  /\ Cardinality(InFlight) < MaxInFlight
  /\ loading' = TRUE
  /\ error' = NoError
  /\ pc' = [pc EXCEPT ![nextCycle] = "awaitAll"]
  /\ res' = [res EXCEPT ![nextCycle] = [r \in Requests |-> "pending"]]
  /\ nextCycle' = nextCycle + 1
  /\ trigger' = by
  /\ UNCHANGED <<health, info, message, lastRefresh, healthData, infoData,
                 outcome, lastSuccess>>

\* useEffect on mount: fetchData(), then setInterval(fetchData, 30000).
Mount ==
  /\ phase = "created"
  /\ phase' = "mounted"
  /\ interval' = TRUE
  /\ StartCycle("mount")
  /\ UNCHANGED <<serverVars, fmtVars>>

\* The interval fires.
Timer ==
  /\ interval
  /\ StartCycle("timer")
  /\ UNCHANGED <<phase, interval, serverVars, fmtVars>>

\* A button that is never disabled.
ManualRefreshUnguarded ==
  /\ phase = "mounted"
  /\ StartCycle("manual")
  /\ UNCHANGED <<phase, interval, serverVars, fmtVars>>

\* <button onClick={fetchData} disabled={loading}>
ManualRefresh ==
  /\ phase = "mounted"
  /\ ~loading
  /\ StartCycle("manual")
  /\ UNCHANGED <<phase, interval, serverVars, fmtVars>>

\* A cleanup that forgets clearInterval.
UnmountNoClear ==
  /\ phase = "mounted"
  /\ phase' = "ended"
  /\ trigger' = "none"
  /\ UNCHANGED <<interval, viewVars, cycleVars, outcome, lastSuccess, serverVars, fmtVars>>

\* The effect's cleanup: clearInterval(interval).  The fetches of the cycles
\* in flight are not aborted: their continuations still run and call their
\* setters.
Unmount ==
  /\ phase = "mounted"
  /\ phase' = "ended"
  /\ interval' = FALSE
  /\ trigger' = "none"
  /\ UNCHANGED <<viewVars, cycleVars, outcome, lastSuccess, serverVars, fmtVars>>

\* fetchData returns: its locals go out of scope.
Return(c, how) ==
  /\ pc' = [pc EXCEPT ![c] = "returned"]
  /\ res' = [res EXCEPT ![c] = [r \in Requests |-> "pending"]]
  /\ healthData' = [healthData EXCEPT ![c] = Null]
  /\ infoData' = [infoData EXCEPT ![c] = Null]
  /\ outcome' = [outcome EXCEPT ![c] = how]

\* finally { setLoading(false) }
Finally == loading' = FALSE

\* setLoading(false) at the end of the try block instead of in finally.
FailNoFinally(c, err, how) ==
  /\ error' = CatchMessage(err)
  /\ Return(c, how)
  /\ UNCHANGED <<health, info, message, lastRefresh, lastSuccess, loading>>

\* catch (err) { setError(...) } finally { setLoading(false) }
Fail(c, err, how) ==
  /\ error' = CatchMessage(err)
  /\ Finally
  /\ Return(c, how)
  /\ UNCHANGED <<health, info, message, lastRefresh, lastSuccess>>

\* One fetch of cycle c settles: it resolves with a response, or it rejects.
\* When Promise.all settles with it, the continuation of
\* `await Promise.all(...)` runs in the same turn of the event loop (promise
\* reactions are microtasks): the catch block on a rejection; otherwise the
\* test of the three ok flags, which are read here, each true (a 2xx status)
\* or false.
Settle(c, r, rejected) ==
  /\ pc[c] = "awaitAll"
  /\ res[c][r] = "pending"
  /\ LET rs == [res[c] EXCEPT ![r] = IF rejected THEN "rejected" ELSE "resolved"] IN
       IF PromiseAll(rs) = "pending"
         THEN /\ res' = [res EXCEPT ![c] = rs]
              /\ UNCHANGED <<viewVars, pc, healthData, infoData, outcome, lastSuccess>>
       ELSE IF PromiseAll(rs) = "rejected"
         THEN Fail(c, NetworkError, "thrown")
       ELSE \E ok \in [Requests -> BOOLEAN] :
              IF ~ok["health"] \/ ~ok["info"] \/ ~ok["message"]
                THEN Fail(c, FetchFailedError, "status")
              ELSE /\ res' = [res EXCEPT ![c] = rs]
                   /\ pc' = [pc EXCEPT ![c] = "awaitHealthJson"]
                   /\ UNCHANGED <<viewVars, healthData, infoData, outcome, lastSuccess>>
  /\ trigger' = "none"
  /\ UNCHANGED <<phase, interval, nextCycle, serverVars, fmtVars>>

\* setHealth moved up, right behind the parse of the health body.
ResumeHealthJsonEager(c) ==
  /\ pc[c] = "awaitHealthJson"
  /\ \E parsed \in BOOLEAN :
       IF parsed
         THEN /\ healthData' = [healthData EXCEPT ![c] = Body("health", c)]
              /\ health' = Body("health", c)
              /\ pc' = [pc EXCEPT ![c] = "awaitInfoJson"]
              /\ UNCHANGED <<info, message, loading, error, lastRefresh,
                             res, infoData, outcome, lastSuccess>>
         ELSE Fail(c, SyntaxError, "thrown")
  /\ trigger' = "none"
  /\ UNCHANGED <<phase, interval, nextCycle, serverVars, fmtVars>>

\* healthRes.json() settles and fetchData resumes: healthData is the parsed
\* body, or the SyntaxError of a malformed body goes to the catch block.
ResumeHealthJson(c) ==
  /\ pc[c] = "awaitHealthJson"
  /\ \E parsed \in BOOLEAN :
       IF parsed
         THEN /\ healthData' = [healthData EXCEPT ![c] = Body("health", c)]
              /\ pc' = [pc EXCEPT ![c] = "awaitInfoJson"]
              /\ UNCHANGED <<viewVars, res, infoData, outcome, lastSuccess>>
         ELSE Fail(c, SyntaxError, "thrown")
  /\ trigger' = "none"
  /\ UNCHANGED <<phase, interval, nextCycle, serverVars, fmtVars>>

\* infoRes.json() settles and fetchData resumes.
ResumeInfoJson(c) ==
  /\ pc[c] = "awaitInfoJson"
  /\ \E parsed \in BOOLEAN :
       IF parsed
         THEN /\ infoData' = [infoData EXCEPT ![c] = Body("info", c)]
              /\ pc' = [pc EXCEPT ![c] = "awaitText"]
              /\ UNCHANGED <<viewVars, res, healthData, outcome, lastSuccess>>
         ELSE Fail(c, SyntaxError, "thrown")
  /\ trigger' = "none"
  /\ UNCHANGED <<phase, interval, nextCycle, serverVars, fmtVars>>

\* A sequence-number guard: only the cycle started last may write.
ApplyIfLatest(c, messageData) ==
  IF c = nextCycle - 1
    THEN /\ health' = healthData[c]
         /\ info' = infoData[c]
         /\ message' = messageData
         /\ lastRefresh' = c
    ELSE UNCHANGED <<health, info, message, lastRefresh>>

\* setHealth(healthData); setInfo(infoData); setMessage(messageData);
\* setLastRefresh(new Date()).  The instant of cycle c's completion is c.
Apply(c, messageData) ==
  /\ health' = healthData[c]
  /\ info' = infoData[c]
  /\ message' = messageData
  /\ lastRefresh' = c

\* messageRes.text() settles and fetchData runs to its end.
ResumeText(c) ==
  /\ pc[c] = "awaitText"
  /\ \E read \in BOOLEAN :
       IF read
         THEN /\ Apply(c, Body("message", c))
              /\ Finally
              /\ Return(c, "success")
              /\ lastSuccess' = c
              /\ UNCHANGED error
         ELSE Fail(c, BodyError, "thrown")
  /\ trigger' = "none"
  /\ UNCHANGED <<phase, interval, nextCycle, serverVars, fmtVars>>

Resume(c) ==
  \/ ResumeHealthJson(c)
  \/ ResumeInfoJson(c)
  \/ ResumeText(c)

\* ----------------------------------------------------------------- backend
Unset == "<unset>"
\* process.env.NODE_ENV as the deployment sets it, and process.version.
EnvSettings == {Unset, "", "production", "staging"}
NodeVersions == {"v18.19.1", "v20.11.0"}

\* JavaScript's a || b on a string that may be undefined: b when a is
\* undefined or empty.
OrElse(a, b) == IF a = Unset \/ a = "" THEN b ELSE a

\* JavaScript's a ?? b: b only when a is undefined.
Nullish(a, b) == IF a = Unset THEN b ELSE a

\* AppService.getHello
getHello == "Hello from NestJS Backend!"

\* AppService.getHealth; the clock and process.uptime() advance together.
getHealth == [status |-> "ok", timestamp |-> uptime, uptime |-> uptime]

\* getInfo with ?? in place of ||.
getInfoNullish ==
  [name |-> "K8s CI/CD Lab Backend",
   version |-> "1.0.0",
   environment |-> Nullish(nodeEnv, "development"),
   nodeVersion |-> nodeVersion]

\* AppService.getInfo
getInfo ==
  [name |-> "K8s CI/CD Lab Backend",
   version |-> "1.0.0",
   environment |-> OrElse(nodeEnv, "development"),
   nodeVersion |-> nodeVersion]

InitServerFixed ==
  /\ nodeEnv = Unset
  /\ nodeVersion = "v20.11.0"
  /\ uptime = 0
  /\ infoLog = <<>>
  /\ healthResp = "<none>"
  /\ helloResp = "<none>"

InitServer ==
  /\ nodeEnv \in EnvSettings
  /\ nodeVersion \in NodeVersions
  /\ uptime = 0
  /\ infoLog = <<>>
  /\ healthResp = "<none>"
  /\ helloResp = "<none>"

\* Time passes in the backend process.
Tick ==
  /\ uptime < MaxUptime
  /\ uptime' = uptime + 1
  /\ UNCHANGED <<nodeEnv, nodeVersion, infoLog, healthResp, helloResp, clientVars, fmtVars>>

\* GET /api
GetHello ==
  /\ helloResp' = getHello
  /\ UNCHANGED <<nodeEnv, nodeVersion, uptime, infoLog, healthResp, clientVars, fmtVars>>

\* GET /api/health
GetHealth ==
  /\ healthResp' = getHealth
  /\ UNCHANGED <<nodeEnv, nodeVersion, uptime, infoLog, helloResp, clientVars, fmtVars>>

\* GET /api/info; infoLog keeps every answer given.
GetInfo ==
  /\ Len(infoLog) < MaxCalls
  /\ infoLog' = Append(infoLog, getInfo)
  /\ UNCHANGED <<nodeEnv, nodeVersion, uptime, healthResp, helloResp, clientVars, fmtVars>>

\* ------------------------------------------------------------ formatUptime
Digit(d) ==
  CASE d = 0 -> "0" [] d = 1 -> "1" [] d = 2 -> "2" [] d = 3 -> "3" [] d = 4 -> "4"
    [] d = 5 -> "5" [] d = 6 -> "6" [] d = 7 -> "7" [] d = 8 -> "8" [] d = 9 -> "9"

\* The decimal text of a natural number, as a template literal prints it.
RECURSIVE DecStr(_)
DecStr(n) == IF n < 10 THEN Digit(n) ELSE DecStr(n \div 10) \o Digit(n % 10)

\* formatUptime without the `% 3600` of the minutes.
formatUptimeNoMod(t) ==
  LET hours == t \div (3600 * TicksPerSecond)
      minutes == t \div (60 * TicksPerSecond)
      secs == (t % (60 * TicksPerSecond)) \div TicksPerSecond
  IN DecStr(hours) \o "h " \o DecStr(minutes) \o "m " \o DecStr(secs) \o "s"

\* formatUptime(seconds) for seconds = t / TicksPerSecond:
\* Math.floor(seconds / 3600), Math.floor((seconds % 3600) / 60),
\* Math.floor(seconds % 60).
formatUptime(t) ==
  LET hours == t \div (3600 * TicksPerSecond)
      minutes == (t % (3600 * TicksPerSecond)) \div (60 * TicksPerSecond)
      secs == (t % (60 * TicksPerSecond)) \div TicksPerSecond
  IN DecStr(hours) \o "h " \o DecStr(minutes) \o "m " \o DecStr(secs) \o "s"

InitFmtFixed ==
  /\ seconds = 0
  /\ formatted = "<none>"

InitFmt ==
  /\ seconds \in 0..(MaxSeconds * TicksPerSecond)
  /\ formatted = "<none>"

\* The health card renders formatUptime(health.uptime).
Render ==
  /\ formatted = "<none>"
  /\ formatted' = formatUptime(seconds)
  /\ UNCHANGED <<seconds, clientVars, serverVars>>

\* ---------------------------------------------------------- specifications
Init == InitClient /\ InitServerFixed /\ InitFmtFixed

Next ==
  \/ Mount
  \/ Timer
  \/ ManualRefresh
  \/ Unmount
  \/ \E c \in Cycles, r \in Requests, rejected \in BOOLEAN : Settle(c, r, rejected)
  \/ \E c \in Cycles : Resume(c)

Spec == Init /\ [][Next]_vars

\* The event loop runs the continuation of every body read that has settled.
FairSpec == Spec /\ \A c \in Cycles : WF_vars(Resume(c))

InitBackend == InitClient /\ InitServer /\ InitFmtFixed

NextBackend ==
  \/ Tick
  \/ GetHello
  \/ GetHealth
  \/ GetInfo

SpecBackend == InitBackend /\ [][NextBackend]_vars

InitFormat == InitClient /\ InitServerFixed /\ InitFmt

NextFormat == Render

SpecFormat == InitFormat /\ [][NextFormat]_vars

\* ------------------------------------------------------------------ claims
InitialData == health = Null /\ info = Null /\ message = EmptyMessage

FromCycle(c) ==
  /\ health = Body("health", c)
  /\ info = Body("info", c)
  /\ message = Body("message", c)

SuccessStep(c) == outcome[c] = "none" /\ outcome'[c] = "success"
FailStep(c) == outcome[c] = "none" /\ outcome'[c] \in {"status", "thrown"}
StartStep == nextCycle' # nextCycle

\* C1: a cycle that ends on its success path replaces health, info and
\* message together with its own three bodies; every other step leaves
\* health, info, message and lastRefresh as they were; so the three are
\* always all initial or all from one cycle.
C1_AllOrNothing ==
  /\ [](InitialData \/ \E c \in Cycles : FromCycle(c))
  /\ [][/\ \A c \in Cycles : SuccessStep(c) =>
              /\ health' = Body("health", c)
              /\ info' = Body("info", c)
              /\ message' = Body("message", c)
        /\ (\A c \in Cycles : ~SuccessStep(c)) =>
              UNCHANGED <<health, info, message, lastRefresh>>]_vars

\* Cycle 1 succeeded, cycle 2 then failed on a status: the data are still
\* cycle 1's, with the error shown.
C1_Witness ==
  /\ outcome[1] = "success"
  /\ outcome[2] = "status"
  /\ FromCycle(1)
  /\ lastRefresh = 1
  /\ error = FetchFailedMsg

\* C2 as stated: every failed cycle leaves the fixed string in error.
C2_FixedStringOnEveryFailure ==
  [][\A c \in Cycles : FailStep(c) => error' = FetchFailedMsg]_vars

\* C2 amended: a failed cycle returns normally; error is the fixed string
\* after a non-success status and the thrown error's own message after a
\* rejected fetch or a failed body read.
C2_ErrorIsCaughtMessage ==
  [][\A c \in Cycles : FailStep(c) =>
        /\ pc'[c] = "returned"
        /\ outcome'[c] = "status" => error' = FetchFailedMsg
        /\ outcome'[c] = "thrown" =>
             error' = (IF pc[c] = "awaitAll" THEN NetworkError.message
                       ELSE IF pc[c] = "awaitText" THEN BodyError.message
                       ELSE SyntaxError.message)]_vars

\* A cycle whose fetch was rejected has ended and error is the TypeError's text.
C2_Witness ==
  \E c \in Cycles :
    /\ outcome[c] = "thrown"
    /\ pc[c] = "returned"
    /\ error = NetworkError.message
    /\ error # FetchFailedMsg

\* C3: loading is true until the first cycle ends; the step that ends a
\* cycle, on either path, leaves loading false; and a cycle whose three
\* requests have all settled does end.
C3_LoadingCleared ==
  /\ []((\A c \in Cycles : outcome[c] = "none") => loading)
  /\ [][\A c \in Cycles : (SuccessStep(c) \/ FailStep(c)) => ~loading']_vars
  /\ \A c \in Cycles : (pc[c] \in ParseStates) ~> (pc[c] = "returned")

\* One cycle has ended on each path and loading is false.
C3_Witness ==
  /\ \E c \in Cycles : outcome[c] = "success"
  /\ \E c \in Cycles : outcome[c] = "thrown"
  /\ \E c \in Cycles : outcome[c] = "status"
  /\ ~loading

\* C6: right after a cycle ends on its success path, error is absent.
C6_SuccessClearsError ==
  [][\A c \in Cycles : SuccessStep(c) => error' = NoError]_vars

\* C7: the data shown are those of the cycle that completed last among the
\* successful ones, whatever the order of their starts, and every cycle that
\* has ended has returned normally.
C7_LastCompletedWins ==
  /\ lastSuccess # 0 => FromCycle(lastSuccess)
  /\ \A c \in Cycles : outcome[c] # "none" => pc[c] = "returned"

\* Cycle 2 started after cycle 1 and succeeded before it: cycle 1 wins.
C7_Witness ==
  /\ outcome[1] = "success"
  /\ outcome[2] = "success"
  /\ lastSuccess = 1
  /\ FromCycle(1)

\* C8 as stated: a cycle leaves `await Promise.all` only in the step that
\* settles its last outstanding request, so a cycle with a request that
\* never settles never ends.
C8_HungRequestNeverEnds ==
  [][\A c \in Cycles : (pc[c] = "awaitAll" /\ pc'[c] # "awaitAll") =>
        Cardinality(Pending(c)) = 1]_vars

\* C8 amended: with a request outstanding a cycle ends only by the rejection
\* of another of its requests; the view changes only in a step that starts
\* or resumes a cycle; and a suspended cycle does not keep the timer from
\* starting the next one.
C8_HungUnlessRejected ==
  /\ [][/\ \A c \in Cycles : (pc[c] = "awaitAll" /\ pc'[c] # "awaitAll") =>
              \/ Cardinality(Pending(c)) = 1
              \/ outcome'[c] = "thrown" /\ error' = NetworkError.message /\ ~loading'
        /\ viewVars' # viewVars => (StartStep \/ \E c \in Cycles : pc'[c] # pc[c])]_vars
  /\ []((/\ \E c \in Cycles : pc[c] = "awaitAll"
         /\ interval
         /\ nextCycle <= MaxCycles
         /\ Cardinality(InFlight) < MaxInFlight) => ENABLED Timer)

\* Cycle 1 hangs with a request outstanding; cycle 2 has succeeded and its
\* data are shown.
C8_Witness ==
  /\ pc[1] = "awaitAll"
  /\ Pending(1) # {}
  /\ outcome[2] = "success"
  /\ FromCycle(2)
  /\ ~loading

\* C9: mounting starts cycle 1; no cycle is started once the session has ended.
C9_NoStartAfterEnd ==
  /\ [](phase # "created" => pc[1] # "idle")
  /\ [][StartStep => (phase' = "mounted" /\ (phase = "created" \/ interval))]_vars
  /\ [](phase = "ended" => ~interval)

\* The session has ended with the timer cancelled, and a cycle that was in
\* flight can still complete.
C9_Witness ==
  /\ phase = "ended"
  /\ ~interval
  /\ nextCycle <= MaxCycles
  /\ \E c \in Cycles : pc[c] = "awaitText" /\ ENABLED ResumeText(c)

\* C10: a manual refresh starts a cycle only where loading is false, hence
\* after some cycle has ended; the timer starts cycles while loading is true.
C10_ManualOnlyWhenIdle ==
  /\ [][(StartStep /\ trigger' = "manual") =>
          (~loading /\ \E d \in Cycles : outcome[d] # "none")]_vars
  /\ []((/\ loading
         /\ interval
         /\ nextCycle <= MaxCycles
         /\ Cardinality(InFlight) < MaxInFlight) => ENABLED Timer)

\* The latest cycle was started by the button while an earlier one is in flight.
C10_Witness ==
  /\ trigger = "manual"
  /\ pc[nextCycle - 1] = "awaitAll"
  /\ \E d \in Cycles : d < nextCycle - 1 /\ d \in InFlight

\* C4: all answers of getInfo in one process are the same record, its
\* environment is 'development' when NODE_ENV is unset, and no field is empty.
C4_InfoConstant ==
  /\ \A i, j \in DOMAIN infoLog : infoLog[i] = infoLog[j]
  /\ \A i \in DOMAIN infoLog :
       /\ nodeEnv = Unset => infoLog[i].environment = "development"
       /\ infoLog[i].name # ""
       /\ infoLog[i].version # ""
       /\ infoLog[i].environment # ""
       /\ infoLog[i].nodeVersion # ""

\* getInfo has answered twice, some time apart, in a process whose NODE_ENV is unset.
C4_Witness ==
  /\ Len(infoLog) >= 2
  /\ nodeEnv = Unset
  /\ uptime > 0
  /\ infoLog[2].environment = "development"

\* C5: the result is "<h>h <m>m <sec>s" for the one h, m < 60, sec < 60 with
\* h*3600 + m*60 + sec = floor(seconds); 3661 seconds give "1h 1m 1s".
C5_FormatUptime ==
  formatted # "<none>" =>
    /\ \E h \in 0..(MaxSeconds \div 3600), m \in 0..59 :
         LET sec == (seconds \div TicksPerSecond) - h * 3600 - m * 60 IN
           /\ sec \in 0..59
           /\ formatted = DecStr(h) \o "h " \o DecStr(m) \o "m " \o DecStr(sec) \o "s"
    /\ (seconds \div TicksPerSecond = 3661) => formatted = "1h 1m 1s"
    /\ seconds = 0 => formatted = "0h 0m 0s"

\* 3661 seconds and a fraction have been formatted.
C5_Witness ==
  /\ seconds = 3661 * TicksPerSecond + 1
  /\ formatted = "1h 1m 1s"

====
